---- MODULE Spec2Model ----
(***************************************************************************)
(* A model of app/redis.py: the RESP codec (parse_command, str2bulk,       *)
(* str2array, str2simple_string), the keyspace, the connection loop        *)
(* RedisServer.handle_client and the fan-out RedisServer.update_replicas.  *)
(*                                                                         *)
(* Bytes and characters are named by strings.  An ASCII byte and the       *)
(* character it decodes to share one name ("a", "*", "\r"); a byte above   *)
(* 0x7F is named "xHH" and the one non-ASCII character of the model,       *)
(* U+00E9, is named "U+00E9" (bytes xC3 xA9 in UTF-8).  A bytes object and *)
(* a str are sequences of such names.                                      *)
(***************************************************************************)
EXTENDS Integers, Sequences, FiniteSets, TLC

\* ------------------------------------------------------------ characters

CR == "\r"
LF == "\n"
CRLF == <<CR, LF>>

DigitChars == <<"0", "1", "2", "3", "4", "5", "6", "7", "8", "9">>

UpperChars ==
    <<"A", "B", "C", "D", "E", "F", "G", "H", "I", "J", "K", "L", "M",
      "N", "O", "P", "Q", "R", "S", "T", "U", "V", "W", "X", "Y", "Z">>

LowerChars ==
    <<"a", "b", "c", "d", "e", "f", "g", "h", "i", "j", "k", "l", "m",
      "n", "o", "p", "q", "r", "s", "t", "u", "v", "w", "x", "y", "z">>

\* The bytes above 0x7F that occur in the model.
HighBytes ==
    {"xA2", "xA9", "xB0", "xBC", "xC0", "xC2", "xC3", "xC4", "xF0", "xFA",
     "xFE", "xFF"}

Range(s) == {s[k] : k \in 1..Len(s)}

\* Python's None, where a str or a datetime is expected.
None == <<"None">>

\* No exception was raised.
NoExc == "NoExc"

\* str.isdigit() of one character
isdigit(c) == \E d \in 1..10 : DigitChars[d] = c

\* int() of one digit character
DigitVal(c) == (CHOOSE d \in 1..10 : DigitChars[d] = c) - 1

\* str(n) of a natural number
RECURSIVE str(_)
str(n) ==
    IF n < 10 THEN <<DigitChars[n + 1]>>
    ELSE str(n \div 10) \o <<DigitChars[(n % 10) + 1]>>

\* int(s) raises ValueError unless s is a non-empty run of digits
int_ok(s) == s # <<>> /\ \A k \in 1..Len(s) : isdigit(s[k])

RECURSIVE int(_)
int(s) ==
    IF Len(s) = 1 THEN DigitVal(s[1])
    ELSE 10 * int(SubSeq(s, 1, Len(s) - 1)) + DigitVal(s[Len(s)])

lower_char(c) ==
    IF \E k \in 1..26 : UpperChars[k] = c
    THEN LowerChars[CHOOSE k \in 1..26 : UpperChars[k] = c]
    ELSE c

\* str.lower()
lower(s) == [k \in 1..Len(s) |-> lower_char(s[k])]

\* bytes.decode(): UTF-8.  The pair xC3 xA9 is the one multi-byte character
\* of the model; any other byte above 0x7F makes decode raise
\* UnicodeDecodeError.
Utf8Lead(b, p) == b[p] = "xC3" /\ p < Len(b) /\ b[p + 1] = "xA9"

Utf8Cont(b, p) == p > 1 /\ Utf8Lead(b, p - 1)

decode_ok(b) ==
    \A p \in 1..Len(b) :
        b[p] \in HighBytes => (Utf8Lead(b, p) \/ Utf8Cont(b, p))

decode(b) ==
    IF \A p \in 1..Len(b) : b[p] \notin HighBytes THEN b
    ELSE LET first == SelectSeq([p \in 1..Len(b) |-> p],
                                LAMBDA p : ~Utf8Cont(b, p))
         IN  [q \in 1..Len(first) |->
                 IF Utf8Lead(b, first[q]) THEN "U+00E9" ELSE b[first[q]]]

\* str.encode(): UTF-8
encode(s) ==
    LET wide == {r \in 1..Len(s) : s[r] = "U+00E9"}
        start(q) == q + Cardinality({r \in wide : r < q})
        last(q) == IF q \in wide THEN start(q) + 1 ELSE start(q)
    IN  IF wide = {} THEN s
        ELSE [p \in 1..(Len(s) + Cardinality(wide)) |->
                 LET q == CHOOSE q \in 1..Len(s) : start(q) <= p /\ p <= last(q)
                 IN  IF q \notin wide THEN s[q]
                     ELSE IF p = start(q) THEN "xC3" ELSE "xA9"]

\* "".join / b"".join of a sequence of sequences
RECURSIVE Concat(_)
Concat(ss) == IF ss = <<>> THEN <<>> ELSE ss[1] \o Concat(Tail(ss))

\* ----------------------------------------------------------- RESP encoders

str2simple_string(data) == encode(<<"+">> \o data \o CRLF)

\* str2bulk(*data): data is the tuple of the arguments
RECURSIVE join_crlf(_)
join_crlf(data) ==
    IF Len(data) = 1 THEN data[1]
    ELSE data[1] \o CRLF \o join_crlf(Tail(data))

str2bulk(data) ==
    IF Len(data) = 1 /\ data[1] = None
    THEN <<"$", "-", "1", CR, LF>>
    ELSE LET data_as_resp == IF data = <<>> THEN <<>> ELSE join_crlf(data)
         IN  encode(<<"$">> \o str(Len(data_as_resp)) \o CRLF
                    \o data_as_resp \o CRLF)

\* str2array(*data)
str2array(data) ==
    IF Len(data) = 1 /\ data[1] = None
    THEN <<"*", "-", "1", CR, LF>>
    ELSE LET data_as_resp ==
                 Concat([a \in 1..Len(data) |-> decode(str2bulk(<<data[a]>>))])
         IN  encode(<<"*">> \o str(Len(data)) \o CRLF \o data_as_resp)

RdbPayload ==
    << "R", "E", "D", "I", "S", "0", "0", "1", "1", "xFA", "x09",
       "r", "e", "d", "i", "s", "-", "v", "e", "r", "x05", "7",
       ".", "2", ".", "0", "xFA", "\n", "r", "e", "d", "i", "s",
       "-", "b", "i", "t", "s", "xC0", "@", "xFA", "x05", "c", "t",
       "i", "m", "e", "xC2", "m", "x08", "xBC", "e", "xFA", "x08", "u",
       "s", "e", "d", "-", "m", "e", "m", "xC2", "xB0", "xC4", "x10",
       "x00", "xFA", "x08", "a", "o", "f", "-", "b", "a", "s", "e",
       "xC0", "x00", "xFF", "xF0", "n", ";", "xFE", "xC0", "xFF", "Z", "xA2" >>

empty_rdb_file == encode(<<"$">> \o str(Len(RdbPayload)) \o CRLF) \o RdbPayload

\* ------------------------------------------------------------ RESP decoder

\* bytes.find(ch): the first position of ch, 0 where Python returns -1
find(message, ch) ==
    IF \E k \in 1..Len(message) : message[k] = ch
    THEN CHOOSE k \in 1..Len(message) :
             message[k] = ch /\ \A m \in 1..(k - 1) : message[m] # ch
    ELSE 0

\* The first position where the pattern [*](\d+) matches, 0 if none.
MatchStart(s) ==
    LET hit(k) == k < Len(s) /\ s[k] = "*" /\ isdigit(s[k + 1])
    IN  IF \E k \in 1..Len(s) : hit(k)
        THEN CHOOSE k \in 1..Len(s) : hit(k) /\ \A m \in 1..(k - 1) : ~hit(m)
        ELSE 0

\* The last position of the greedy digit run that starts after position k.
DigitsEnd(s, k) ==
    CHOOSE e \in (k + 1)..Len(s) :
        /\ \A m \in (k + 1)..e : isdigit(s[m])
        /\ (e = Len(s) \/ ~isdigit(s[e + 1]))

\* re.split(r"[*](\d+)", s): the text between the matches, each followed by
\* the digits the group captured.
RECURSIVE re_split(_)
re_split(s) ==
    LET k == MatchStart(s)
    IN  IF k = 0 THEN <<s>>
        ELSE LET e == DigitsEnd(s, k)
             IN  <<SubSeq(s, 1, k - 1), SubSeq(s, k + 1, e)>>
                     \o re_split(SubSeq(s, e + 1, Len(s)))

\* re.split("\r\n", s)
RECURSIVE split_crlf(_)
split_crlf(s) ==
    LET hit(k) == k < Len(s) /\ s[k] = CR /\ s[k + 1] = LF
    IN  IF \E k \in 1..Len(s) : hit(k)
        THEN LET k == CHOOSE k \in 1..Len(s) :
                          hit(k) /\ \A m \in 1..(k - 1) : ~hit(m)
             IN  <<SubSeq(s, 1, k - 1)>> \o split_crlf(SubSeq(s, k + 2, Len(s)))
        ELSE <<s>>

\* The inner loop of parse_command: the parts after the first that are
\* neither empty nor a $<len> line, lowercased.
RECURSIVE collect(_)
collect(parts) ==
    IF parts = <<>> THEN <<>>
    ELSE IF parts[1] = <<>> \/ parts[1][1] = "$" THEN collect(Tail(parts))
    ELSE <<lower(parts[1])>> \o collect(Tail(parts))

\* The outer loop of parse_command over the pieces of re_split;
\* number_of_parts is -1 while the name is unbound.
RECURSIVE parse_loop(_, _, _, _)
parse_loop(resp_commands, k, number_of_parts, commands) ==
    IF k > Len(resp_commands) THEN [exc |-> NoExc, commands |-> commands]
    ELSE LET resp_command == resp_commands[k]
         IN  IF resp_command = <<>>
             THEN parse_loop(resp_commands, k + 1, number_of_parts, commands)
             ELSE IF isdigit(resp_command[1])
             THEN parse_loop(resp_commands, k + 1, DigitVal(resp_command[1]),
                             commands)
             ELSE LET parts == split_crlf(resp_command)
                      command == collect(Tail(parts))
                  IN  IF number_of_parts = -1
                      THEN [exc |-> "UnboundLocalError", commands |-> <<>>]
                      ELSE IF Len(command) # number_of_parts
                      THEN [exc |-> "AssertionError", commands |-> <<>>]
                      ELSE parse_loop(resp_commands, k + 1, number_of_parts,
                               Append(commands,
                                   [command |-> command,
                                    message_length |->
                                        Len(resp_command) + 1
                                        + Len(encode(str(number_of_parts)))]))

\* parse_command(message): [exc, commands]
parse_command(message) ==
    LET message_start == find(message, "*")
    IN  IF message_start # 0
        THEN LET tail == SubSeq(message, message_start, Len(message))
             IN  IF ~decode_ok(tail)
                 THEN [exc |-> "UnicodeDecodeError", commands |-> <<>>]
                 ELSE parse_loop(re_split(decode(tail)), 1, -1, <<>>)
        ELSE IF message # <<>> /\ message[1] \in {"+", "@"}
        THEN [exc |-> NoExc, commands |-> <<>>]
        ELSE [exc |-> "ValueError", commands |-> <<>>]

\* ------------------------------------------------------------- literals

lit_ping == <<"p", "i", "n", "g">>
lit_echo == <<"e", "c", "h", "o">>
lit_set == <<"s", "e", "t">>
lit_get == <<"g", "e", "t">>
lit_del == <<"d", "e", "l">>
lit_px == <<"p", "x">>
lit_info == <<"i", "n", "f", "o">>
lit_psync == <<"p", "s", "y", "n", "c">>
lit_replconf == <<"r", "e", "p", "l", "c", "o", "n", "f">>
lit_getack == <<"g", "e", "t", "a", "c", "k">>
lit_replication == <<"r", "e", "p", "l", "i", "c", "a", "t", "i", "o", "n">>
lit_listening_port ==
    <<"l", "i", "s", "t", "e", "n", "i", "n", "g", "-", "p", "o", "r", "t">>
lit_PONG == <<"P", "O", "N", "G">>
lit_OK == <<"O", "K">>
lit_REPLCONF == <<"R", "E", "P", "L", "C", "O", "N", "F">>
lit_ACK == <<"A", "C", "K">>
lit_role == <<"r", "o", "l", "e", ":">>
lit_master_replid ==
    <<"m", "a", "s", "t", "e", "r", "_", "r", "e", "p", "l", "i", "d", ":">>
lit_master_repl_offset ==
    <<"m", "a", "s", "t", "e", "r", "_", "r", "e", "p", "l", "_",
      "o", "f", "f", "s", "e", "t", ":", "0">>
lit_FULLRESYNC ==
    <<"F", "U", "L", "L", "R", "E", "S", "Y", "N", "C", " ",
      "8", "3", "7", "1", "b", "4", "f", "b", "1", "1", "5", "5", "b", "7",
      "1", "f", "4", "a", "0", "4", "d", "3", "e", "1", "b", "c", "3", "e",
      "1", "8", "c", "4", "a", "9", "9", "0", "a", "e", "e", "b", " ", "0">>

\* self.role as a str
role_str(r) ==
    IF r = "master" THEN <<"m", "a", "s", "t", "e", "r">>
    ELSE <<"s", "l", "a", "v", "e">>

\* Record.expires_at is None
NoExpiry == -1

\* ------------------------------------------------- the match statement

(* The match statement of handle_client works on a record st of what it    *)
(* reads and writes: self.data, self.replicas, the local response (bound   *)
(* tells whether the name is bound yet) and the exception it raises.       *)

case_ping(st) ==
    [st EXCEPT !.response = <<str2simple_string(lit_PONG)>>, !.bound = TRUE]

\* An echo case that assigns no response (the fault of the cases that fall
\* through): the reply written is the one left by the previous command.
case_echo_silent(st, arg) == st

case_echo(st, arg) ==
    [st EXCEPT !.response = <<str2bulk(<<arg>>)>>, !.bound = TRUE]

\* case "set", key, value, "px", ttl; t is datetime.datetime.now() in ms
case_set_px(st, key, value, ttl, t) ==
    IF key \in DOMAIN st.data THEN st
    ELSE IF ~int_ok(ttl) THEN [st EXCEPT !.exc = "ValueError"]
    ELSE [st EXCEPT
             !.data = (key :> [value |-> value, expires_at |-> t + int(ttl)])
                          @@ st.data,
             !.response = <<str2bulk(<<lit_OK>>)>>,
             !.bound = TRUE]

\* case "set", key, value
case_set(st, key, value) ==
    IF key \in DOMAIN st.data THEN st
    ELSE [st EXCEPT
             !.data = (key :> [value |-> value, expires_at |-> NoExpiry])
                          @@ st.data,
             !.response = <<str2bulk(<<lit_OK>>)>>,
             !.bound = TRUE]

\* A get case that takes a record for expired at the instant of its expiry
\* already (ttl <= now instead of ttl < now).
case_get_early(st, key, t) ==
    IF key \notin DOMAIN st.data THEN [st EXCEPT !.exc = "TypeError"]
    ELSE LET rec == st.data[key]
             expired == rec.expires_at # NoExpiry /\ rec.expires_at <= t
         IN  [st EXCEPT
                 !.data = IF expired
                          THEN [k \in (DOMAIN st.data) \ {key} |-> st.data[k]]
                          ELSE @,
                 !.response =
                     <<str2bulk(<<IF expired THEN None ELSE rec.value>>)>>,
                 !.bound = TRUE]

\* case "get", key: self.data.get(key) is None for an absent key and the
\* tuple assignment then raises TypeError
case_get(st, key, t) ==
    IF key \notin DOMAIN st.data THEN [st EXCEPT !.exc = "TypeError"]
    ELSE LET rec == st.data[key]
             expired == rec.expires_at # NoExpiry /\ rec.expires_at < t
         IN  [st EXCEPT
                 !.data = IF expired
                          THEN [k \in (DOMAIN st.data) \ {key} |-> st.data[k]]
                          ELSE @,
                 !.response =
                     <<str2bulk(<<IF expired THEN None ELSE rec.value>>)>>,
                 !.bound = TRUE]

\* case "info", section; rid is the 40 random characters
case_info(st, section, r, rid) ==
    IF section = lit_replication
    THEN [st EXCEPT
             !.response = <<str2bulk(<<lit_role \o role_str(r),
                                       lit_master_replid \o rid,
                                       lit_master_repl_offset>>)>>,
             !.bound = TRUE]
    ELSE st

\* case "replconf", *args; c is this connection's (reader, writer)
case_replconf(st, args, c, off) ==
    IF args = <<>> THEN [st EXCEPT !.exc = "IndexError"]
    ELSE IF args[1] = lit_listening_port
    THEN [st EXCEPT !.replicas = @ \cup {c},
                    !.response = <<str2simple_string(lit_OK)>>,
                    !.bound = TRUE]
    ELSE IF args[1] = lit_getack
    THEN [st EXCEPT
             !.response = <<str2array(<<lit_REPLCONF, lit_ACK, str(off)>>)>>,
             !.bound = TRUE]
    ELSE st

\* case "psync", *args
case_psync(st) ==
    [st EXCEPT
        !.response = <<str2simple_string(lit_FULLRESYNC), empty_rdb_file>>,
        !.bound = TRUE]

\* match command: the first case whose pattern matches; no case, no effect
match_command(command, st, c, r, off, t, rid) ==
    LET n == Len(command)
        verb == IF n = 0 THEN <<>> ELSE command[1]
    IN  IF n = 1 /\ verb = lit_ping THEN case_ping(st)
        ELSE IF n = 2 /\ verb = lit_echo THEN case_echo(st, command[2])
        ELSE IF n = 5 /\ verb = lit_set /\ command[4] = lit_px
        THEN case_set_px(st, command[2], command[3], command[5], t)
        ELSE IF n = 3 /\ verb = lit_set
        THEN case_set(st, command[2], command[3])
        ELSE IF n = 2 /\ verb = lit_get THEN case_get(st, command[2], t)
        ELSE IF n = 2 /\ verb = lit_info
        THEN case_info(st, command[2], r, rid)
        ELSE IF n >= 1 /\ verb = lit_replconf
        THEN case_replconf(st, Tail(command), c, off)
        ELSE IF n >= 1 /\ verb = lit_psync THEN case_psync(st)
        ELSE st

\* --------------------------------------------------------------- inputs

\* What a peer sends: the RESP array of its tokens, every bulk prefixed by
\* its length in bytes.
Bulk(t) == <<"$">> \o str(Len(encode(t))) \o CRLF \o encode(t) \o CRLF

RespArray(tokens) ==
    <<"*">> \o str(Len(tokens)) \o CRLF
        \o Concat([b \in 1..Len(tokens) |-> Bulk(tokens[b])])

F_PING == <<<<"P", "I", "N", "G">>>>
F_ECHO == <<<<"E", "C", "H", "O">>, <<"h", "i">>>>
F_SET_V == <<<<"S", "E", "T">>, <<"k">>, <<"v">>>>
F_SET_PX == <<<<"S", "E", "T">>, <<"k">>, <<"w">>, <<"P", "X">>, <<"0">>>>
F_SET_E == <<<<"S", "E", "T">>, <<"k">>, <<"U+00E9">>>>
F_SET_GETACK == <<<<"S", "E", "T">>, <<"k">>, <<"g", "e", "t", "a", "c", "k">>>>
F_GET == <<<<"G", "E", "T">>, <<"k">>>>
F_DEL == <<<<"D", "E", "L">>, <<"k">>>>
F_FOO == <<<<"F", "O", "O">>>>
F_LISTEN ==
    <<lit_REPLCONF, lit_listening_port, <<"6", "3", "8", "0">>>>
F_GETACK == <<lit_REPLCONF, <<"G", "E", "T", "A", "C", "K">>, <<"*">>>>

\* One read: the frames it delivers whole, and its bytes.
Whole(fs) ==
    [frames |-> fs,
     bytes |-> Concat([f \in 1..Len(fs) |-> RespArray(fs[f])]),
     whole |-> TRUE]

\* End of stream: reader.read returns b"".
EndOfStream == Whole(<<>>)

\* A PING frame cut after its length line, and the rest of it.
PingHead ==
    [frames |-> <<>>,
     bytes |-> <<"*", "1", CR, LF, "$", "4", CR, LF>>,
     whole |-> FALSE]

PingTail ==
    [frames |-> <<F_PING>>,
     bytes |-> <<"P", "I", "N", "G", CR, LF>>,
     whole |-> FALSE]

\* What a client may send in one read.
ClientChunks ==
    {Whole(<<F_PING>>), Whole(<<F_PING, F_ECHO>>), Whole(<<F_SET_V>>),
     Whole(<<F_SET_PX>>), Whole(<<F_GET>>), Whole(<<F_DEL>>),
     Whole(<<F_FOO>>), Whole(<<F_LISTEN>>), PingHead, EndOfStream}

\* What the master may send in one read after the handshake.
MasterChunks ==
    {Whole(<<F_PING>>), Whole(<<F_SET_V>>), Whole(<<F_SET_E>>),
     Whole(<<F_SET_GETACK>>), Whole(<<F_DEL>>), Whole(<<F_GETACK>>),
     Whole(<<F_SET_V, F_GETACK>>), EndOfStream}

\* What arrives while the loop waits for the rest of a frame.
RetryChunks == {PingTail}

\* The 40 random characters of master_replid.
ReplIds == {[k \in 1..40 |-> "a"], [k \in 1..40 |-> "Z"]}

\* ---------------------------------------------------------------- bounds

MaxReads == 3
MaxTime == 1

\* ----------------------------------------------------------------- state

\* "m" is the connection the handshake opened to the master (handle_client
\* with replica_conn=True); the others are accepted by start_server.
Conns == {"m", "c1", "c2", "c3"}

\* The connections of a server of role r: a master serves two clients (each
\* may register as a replica); a replica has its master and one client.
Open(r) == IF r = "master" THEN {"c1", "c2"} ELSE {"m", "c1"}

replica_conn(c) == c = "m"

NoTask == "-"

VARIABLES
    role,       \* self.role
    data,       \* self.data: key -> Record
    replicas,   \* self.replicas
    offset,     \* self.offset
    now,        \* datetime.datetime.now(), in ms
    running,    \* the task on the CPU, NoTask while the loop is idle
    task,       \* per connection: where handle_client is, and its locals
    out,        \* per connection: what was written to its writer
    closed,     \* per connection: writer.close() was called
    reads,      \* reads delivered so far
    obs,        \* per connection: what the dispatch of its commands saw
    frames,     \* byte lengths of the frames delivered on "m"
    acks,       \* the REPLCONF ACK replies sent on "m"
    dlog,       \* the set/del commands dispatched on client connections
    last_px,    \* the latest SET key value PX ms dispatched, off after DEL
    last_get,   \* the latest GET that returned, off after a SET PX
    hs          \* handshake: own port, frames sent, replies read

\* What the latest SET PX and GET did, kept for the properties of expiry.
hist == <<last_px, last_get>>

vars ==
    <<role, data, replicas, offset, now, running, task, out, closed, reads,
      obs, frames, acks, dlog, last_px, last_get, hs>>

NoRecord == [value |-> <<>>, expires_at |-> NoExpiry]

NoPx == [on |-> FALSE, key |-> <<>>, value |-> <<>>, t0 |-> 0, ttl |-> 0]

NoGet ==
    [on |-> FALSE, key |-> <<>>, t |-> 0, bytes |-> <<>>,
     before |-> NoRecord, kept |-> FALSE, after |-> NoRecord]

\* ------------------------------------------------------------ handshake

\* str(self.port)
Ports == {<<"6", "3", "8", "0">>, <<"6", "3", "8", "1">>}

lit_PING == <<"P", "I", "N", "G">>
lit_capa == <<"c", "a", "p", "a">>
lit_npsync2 == <<"n", "p", "s", "y", "n", "c", "2">>
lit_PSYNC == <<"P", "S", "Y", "N", "C">>

\* lines 34, 39, 44, 51: the k-th frame the handshake writes
hs_frame(k, port) ==
    IF k = 1 THEN str2array(<<lit_PING>>)
    ELSE IF k = 2 THEN str2array(<<lit_REPLCONF, lit_listening_port, port>>)
    ELSE IF k = 3 THEN str2array(<<lit_REPLCONF, lit_capa, lit_npsync2>>)
    ELSE str2array(<<lit_PSYNC, <<"?">>, <<"-", "1">>>>)

\* The asserts switched off: every reply passes.
hs_assert_off(k, reply) == TRUE

\* lines 37, 42, 47: assert data == str2simple_string(...)
hs_assert(k, reply) ==
    reply = str2simple_string(IF k = 1 THEN lit_PONG ELSE lit_OK)

\* What reader.read(100) may return during the handshake: the two replies,
\* a reply cut short, an error reply, end of stream.
HsReplies ==
    {<<"+", "P", "O", "N", "G", CR, LF>>, <<"+", "O", "K", CR, LF>>,
     <<"+", "P", "O">>, <<"-", "E", "R", "R", CR, LF>>, <<>>}

\* No handshake: master_port is 0 and handshake returns at line 30.
NoHandshake == [port |-> <<>>, sent |-> <<>>, got |-> <<>>]

\* The handshake of a replica listening on port, run to its end.
HandshakeDone(port) ==
    [port |-> port,
     sent |-> [k \in 1..4 |-> hs_frame(k, port)],
     got |-> <<str2simple_string(lit_PONG), str2simple_string(lit_OK),
               str2simple_string(lit_OK)>>]

InitTask(c, r) ==
    [pc |-> IF c \in Open(r) THEN "read" ELSE "none",
     data |-> <<>>, commands |-> <<>>, i |-> 0,
     response |-> <<>>, bound |-> FALSE, j |-> 0,
     todo |-> {}, si_used |-> 0, w |-> NoTask, exc |-> NoExc]

InitObs ==
    [seen |-> 0, whole |-> TRUE, allreply |-> TRUE, expected |-> <<>>,
     command |-> <<>>, present |-> FALSE, present_after |-> FALSE,
     nown |-> 0, changed |-> FALSE, d |-> 0, orig |-> <<>>, eof |-> FALSE]

Init ==
    /\ role \in {"master", "slave"}
    /\ data = <<>>
    /\ replicas = {}
    /\ offset = 0
    /\ now = 0
    /\ running = NoTask
    /\ task = [c \in Conns |-> InitTask(c, role)]
    /\ out = [c \in Conns |-> <<>>]
    /\ closed = [c \in Conns |-> FALSE]
    /\ reads = 0
    /\ obs = [c \in Conns |-> InitObs]
    /\ frames = <<>>
    /\ acks = <<>>
    /\ dlog = <<>>
    /\ last_px = NoPx
    /\ last_get = NoGet
    /\ hs = IF role = "master" THEN NoHandshake
            ELSE HandshakeDone(<<"6", "3", "8", "0">>)

\* ------------------------------------------------------------ the loop

Chunks(c) == IF replica_conn(c) THEN MasterChunks ELSE ClientChunks

\* for command, message_length in commands: the next command, or back to
\* await reader.read(100)
advance(t) ==
    IF t.i < Len(t.commands)
    THEN [t EXCEPT !.i = @ + 1, !.pc = "dispatch"]
    ELSE [t EXCEPT !.pc = "read"]

\* an exception leaves handle_client
raise(t, e) == [t EXCEPT !.pc = "raised", !.exc = e]

\* commands = parse_command(data), inside try/except Exception
after_parse(t) ==
    LET r == parse_command(t.data)
    IN  IF r.exc # NoExc THEN [t EXCEPT !.pc = "retry"]
        ELSE IF r.commands = <<>>
        THEN [t EXCEPT !.commands = <<>>, !.i = 0, !.pc = "read"]
        ELSE [t EXCEPT !.commands = r.commands, !.i = 1, !.pc = "dispatch"]

\* data = await reader.read(100); if not data: break
after_read(t, bytes) ==
    IF bytes = <<>> THEN [t EXCEPT !.data = bytes, !.pc = "close"]
    ELSE after_parse([t EXCEPT !.data = bytes])

\* The task stays on the CPU until it awaits or ends.
on_cpu(t, c) ==
    IF t.pc \in {"read", "retry", "raised"} THEN NoTask ELSE c

\* The replies (not the propagated commands) written to a writer.
OwnWrites(c) == SelectSeq(out[c], LAMBDA e : e.kind # "prop")

\* The command table's reply to a command the loop answers: against the
\* keyspace d at time t, a value in the server's bulk encoding.  <<>> for
\* every other command.
TableReply(command, d, t) ==
    LET n == Len(command)
        verb == IF n = 0 THEN <<>> ELSE command[1]
    IN  IF n = 1 /\ verb = lit_ping
        THEN <<<<"+", "P", "O", "N", "G", CR, LF>>>>
        ELSE IF n = 2 /\ verb = lit_echo THEN <<str2bulk(<<command[2]>>)>>
        ELSE IF /\ verb = lit_set
                /\ (n = 3 \/ (n = 5 /\ command[4] = lit_px))
                /\ command[2] \notin DOMAIN d
        THEN <<<<"$", "2", CR, LF, "O", "K", CR, LF>>>>
        ELSE IF n = 2 /\ verb = lit_get /\ command[2] \in DOMAIN d
        THEN IF /\ d[command[2]].expires_at # NoExpiry
                /\ d[command[2]].expires_at < t
             THEN <<<<"$", "-", "1", CR, LF>>>>
             ELSE <<str2bulk(<<d[command[2]].value>>)>>
        ELSE IF n >= 2 /\ verb = lit_replconf /\ command[2] = lit_listening_port
        THEN <<<<"+", "O", "K", CR, LF>>>>
        ELSE <<>>

IsWrite(command) == command # <<>> /\ command[1] \in {lit_set, lit_del}

IsGetAck(command) ==
    Len(command) >= 2 /\ command[1] = lit_replconf /\ command[2] = lit_getack

RECURSIVE Sum(_)
Sum(s) == IF s = <<>> THEN 0 ELSE s[1] + Sum(Tail(s))

\* line 75: data = await reader.read(100) returns the bytes of ch, then the
\* parse
ReadChunk(c, ch) ==
    /\ running = NoTask
    /\ task[c].pc = "read"
    /\ reads < MaxReads
    /\ reads' = reads + 1
    /\ LET t1 == after_read(task[c], ch.bytes)
       IN  /\ task' = [task EXCEPT ![c] = t1]
           /\ running' = on_cpu(t1, c)
    /\ obs' = [obs EXCEPT ![c].whole = @ /\ ch.whole, ![c].orig = ch.frames,
                           ![c].eof = @ \/ ch.bytes = <<>>]
    /\ frames' = IF replica_conn(c)
                 THEN frames \o [n \in 1..Len(ch.frames) |->
                                     Len(RespArray(ch.frames[n]))]
                 ELSE frames
    /\ UNCHANGED <<role, data, replicas, offset, now, out, closed, acks, dlog>>
    /\ UNCHANGED hist
    /\ UNCHANGED hs

Read(c, ch) == ch \in Chunks(c) /\ ReadChunk(c, ch)

\* line 85: data += await reader.read(100) returns the bytes of ch, then the
\* parse again
RetryChunk(c, ch) ==
    /\ running = NoTask
    /\ task[c].pc = "retry"
    /\ reads < MaxReads
    /\ reads' = reads + 1
    /\ LET t1 == after_parse([task[c] EXCEPT !.data = @ \o ch.bytes])
       IN  /\ task' = [task EXCEPT ![c] = t1]
           /\ running' = on_cpu(t1, c)
    /\ frames' = IF replica_conn(c)
                 THEN frames \o [n \in 1..Len(ch.frames) |->
                                     Len(RespArray(ch.frames[n]))]
                 ELSE frames
    /\ obs' = [obs EXCEPT ![c].orig = ch.frames,
                           ![c].eof = @ \/ ch.bytes = <<>>]
    /\ UNCHANGED <<role, data, replicas, offset, now, out, closed, acks, dlog>>
    /\ UNCHANGED hist
    /\ UNCHANGED hs

RetryRead(c, ch) == ch \in RetryChunks /\ RetryChunk(c, ch)

IsSetPx(command) ==
    Len(command) = 5 /\ command[1] = lit_set /\ command[4] = lit_px

IsGet(command) == Len(command) = 2 /\ command[1] = lit_get

IsDel(command) == Len(command) = 2 /\ command[1] = lit_del

\* last_px once command is dispatched at time t
px_after(command, px, t) ==
    IF IsSetPx(command) /\ int_ok(command[5])
    THEN [on |-> TRUE, key |-> command[2], value |-> command[3],
          t0 |-> t, ttl |-> int(command[5])]
    ELSE IF IsDel(command) /\ command[2] = px.key THEN NoPx
    ELSE px

\* last_get once command is dispatched at time t against the keyspace d0,
\* the match leaving st1
get_after(command, g, d0, st1, t) ==
    IF IsSetPx(command) THEN NoGet
    ELSE IF IsGet(command) /\ st1.exc = NoExc
    THEN [on |-> TRUE, key |-> command[2], t |-> t,
          bytes |-> st1.response[1],
          before |-> d0[command[2]],
          kept |-> command[2] \in DOMAIN st1.data,
          after |-> IF command[2] \in DOMAIN st1.data
                    THEN st1.data[command[2]] ELSE NoRecord]
    ELSE g

\* lines 91-141: the match statement on the current command
Dispatch(c, rid) ==
    /\ running = c
    /\ task[c].pc = "dispatch"
    /\ rid \in ReplIds
    /\ LET t == task[c]
           cm == t.commands[t.i]
           st0 == [data |-> data, replicas |-> replicas,
                   response |-> t.response, bound |-> t.bound, exc |-> NoExc]
           st1 == match_command(cm.command, st0, c, role, offset, now, rid)
           t1 == IF st1.exc # NoExc THEN raise(t, st1.exc)
                 ELSE [t EXCEPT !.response = st1.response,
                                !.bound = st1.bound,
                                !.j = 1,
                                !.pc = IF replica_conn(c) THEN "ack"
                                       ELSE "reply"]
           logged == ~replica_conn(c) /\ IsWrite(cm.command)
           reply == TableReply(cm.command, data, now)
           key == IF Len(cm.command) >= 2 THEN cm.command[2] ELSE <<>>
       IN  /\ data' = st1.data
           /\ replicas' = st1.replicas
           /\ task' = [task EXCEPT ![c] = t1]
           /\ running' = on_cpu(t1, c)
           /\ dlog' = IF logged
                      THEN Append(dlog, [conn |-> c, command |-> cm.command,
                                         replicas |-> replicas,
                                         orig |-> IF t.i <= Len(obs[c].orig)
                                                  THEN obs[c].orig[t.i]
                                                  ELSE <<>>,
                                         hs |-> Len(hs.sent)])
                      ELSE dlog
           /\ obs' = [obs EXCEPT ![c] =
                  [@ EXCEPT !.seen = @ + 1,
                            !.allreply = @ /\ reply # <<>>,
                            !.expected = @ \o reply,
                            !.command = cm.command,
                            !.present = key \in DOMAIN data,
                            !.present_after = key \in DOMAIN st1.data,
                            !.nown = Len(OwnWrites(c)),
                            !.changed = st1.data # data
                                        \/ st1.replicas # replicas,
                            !.d = IF logged THEN Len(dlog) + 1 ELSE 0]]
           /\ last_px' = px_after(cm.command, last_px, now)
           /\ last_get' = get_after(cm.command, last_get, data, st1, now)
    /\ UNCHANGED <<role, offset, now, out, closed, reads, frames, acks, hs>>

\* lines 144-146: for resp in response: writer.write(resp), up to the await
WriteReply(c) ==
    /\ running = c
    /\ task[c].pc = "reply"
    /\ ~(task[c].bound /\ task[c].j > Len(task[c].response))
    /\ LET t == task[c]
           t1 == IF ~t.bound THEN raise(t, "UnboundLocalError")
                 ELSE [t EXCEPT !.pc = "drain_reply"]
       IN  /\ task' = [task EXCEPT ![c] = t1]
           /\ out' = IF ~t.bound THEN out
                     ELSE [out EXCEPT ![c] =
                              Append(@, [bytes |-> t.response[t.j],
                                         kind |-> "reply", d |-> 0])]
    /\ running' = NoTask
    /\ UNCHANGED <<role, data, replicas, offset, now, closed, reads, obs,
                   frames, acks, dlog>>
    /\ UNCHANGED hist
    /\ UNCHANGED hs

\* lines 148-149 once the replies are flushed: update_replicas is entered
\* for set and del, and its for loop takes iter(self.replicas)
AfterReply(c) ==
    /\ running = c
    /\ task[c].pc = "reply"
    /\ task[c].bound
    /\ task[c].j > Len(task[c].response)
    /\ LET t == task[c]
           command == t.commands[t.i].command
           t1 == IF command = <<>> THEN raise(t, "IndexError")
                 ELSE IF command[1] \in {lit_set, lit_del}
                 THEN [t EXCEPT !.pc = "propagate",
                                !.todo = replicas,
                                !.si_used = Cardinality(replicas)]
                 ELSE advance(t)
       IN  /\ task' = [task EXCEPT ![c] = t1]
           /\ running' = on_cpu(t1, c)
    /\ UNCHANGED <<role, data, replicas, offset, now, out, closed, reads, obs,
                   frames, acks, dlog>>
    /\ UNCHANGED hist
    /\ UNCHANGED hs

\* lines 57-60: the set iterator yields w, writer.write(str2array(*command)),
\* up to the await.  A closed transport drops what is written to it.
PropagateWrite(c, w) ==
    /\ running = c
    /\ task[c].pc = "propagate"
    /\ Cardinality(replicas) = task[c].si_used
    /\ w \in task[c].todo
    /\ task' = [task EXCEPT ![c] =
                   [@ EXCEPT !.pc = "drain_prop", !.todo = @ \ {w}, !.w = w]]
    /\ out' = IF closed[w] THEN out
              ELSE [out EXCEPT ![w] =
                       Append(@, [bytes |->
                                      str2array(
                                          task[c].commands[task[c].i].command),
                                  kind |-> "prop", d |-> obs[c].d])]
    /\ running' = NoTask
    /\ UNCHANGED <<role, data, replicas, offset, now, closed, reads, obs,
                   frames, acks, dlog>>
    /\ UNCHANGED hist
    /\ UNCHANGED hs

\* line 57: the set iterator is exhausted, or raises RuntimeError because
\* the set changed size during iteration
PropagateEnd(c) ==
    /\ running = c
    /\ task[c].pc = "propagate"
    /\ ~(Cardinality(replicas) = task[c].si_used /\ task[c].todo # {})
    /\ LET t == task[c]
           t1 == IF Cardinality(replicas) # t.si_used
                 THEN raise(t, "RuntimeError")
                 ELSE advance(t)
       IN  /\ task' = [task EXCEPT ![c] = t1]
           /\ running' = on_cpu(t1, c)
    /\ UNCHANGED <<role, data, replicas, offset, now, out, closed, reads, obs,
                   frames, acks, dlog>>
    /\ UNCHANGED hist
    /\ UNCHANGED hs

\* lines 151-153: if "getack" in command: writer.write(response[0]), up to
\* the await
Ack(c) ==
    /\ running = c
    /\ task[c].pc = "ack"
    /\ LET t == task[c]
           command == t.commands[t.i].command
           hit == lit_getack \in Range(command)
           t1 == IF ~hit THEN [t EXCEPT !.pc = "count"]
                 ELSE IF ~t.bound THEN raise(t, "UnboundLocalError")
                 ELSE [t EXCEPT !.pc = "drain_ack"]
           wrote == hit /\ t.bound
       IN  /\ task' = [task EXCEPT ![c] = t1]
           /\ running' = IF hit THEN NoTask ELSE c
           /\ out' = IF wrote
                     THEN [out EXCEPT ![c] =
                              Append(@, [bytes |-> t.response[1],
                                         kind |-> "ack", d |-> 0])]
                     ELSE out
           /\ acks' = IF wrote /\ IsGetAck(command)
                      THEN Append(acks,
                               [sent |-> t.response[1],
                                before |-> Sum(SubSeq(frames, 1,
                                                      obs[c].seen - 1)),
                                offset |-> offset])
                      ELSE acks
    /\ UNCHANGED <<role, data, replicas, offset, now, closed, reads, obs,
                   frames, dlog>>
    /\ UNCHANGED hist
    /\ UNCHANGED hs

\* line 155: self.offset += message_length
Count(c) ==
    /\ running = c
    /\ task[c].pc = "count"
    /\ offset' = offset + task[c].commands[task[c].i].message_length
    /\ LET t1 == advance(task[c])
       IN  /\ task' = [task EXCEPT ![c] = t1]
           /\ running' = on_cpu(t1, c)
    /\ UNCHANGED <<role, data, replicas, now, out, closed, reads, obs, frames,
                   acks, dlog>>
    /\ UNCHANGED hist
    /\ UNCHANGED hs

\* await writer.drain() returns (lines 146, 60, 153).  On a writer whose
\* transport is closed it raises ConnectionResetError.
Drain(c) ==
    /\ running = NoTask
    /\ task[c].pc \in {"drain_reply", "drain_prop", "drain_ack"}
    /\ LET t == task[c]
           t1 == IF t.pc = "drain_reply"
                 THEN [t EXCEPT !.j = @ + 1, !.pc = "reply"]
                 ELSE IF t.pc = "drain_ack" THEN [t EXCEPT !.pc = "count"]
                 ELSE IF closed[t.w] THEN raise(t, "ConnectionResetError")
                 ELSE [t EXCEPT !.pc = "propagate"]
       IN  /\ task' = [task EXCEPT ![c] = t1]
           /\ running' = on_cpu(t1, c)
    /\ UNCHANGED <<role, data, replicas, offset, now, out, closed, reads, obs,
                   frames, acks, dlog>>
    /\ UNCHANGED hist
    /\ UNCHANGED hs

\* line 157: writer.close(), up to await writer.wait_closed()
Close(c) ==
    /\ running = c
    /\ task[c].pc = "close"
    /\ task' = [task EXCEPT ![c].pc = "wait_closed"]
    /\ closed' = [closed EXCEPT ![c] = TRUE]
    /\ running' = NoTask
    /\ UNCHANGED <<role, data, replicas, offset, now, out, reads, obs, frames,
                   acks, dlog>>
    /\ UNCHANGED hist
    /\ UNCHANGED hs

\* line 158: await writer.wait_closed() returns and handle_client with it
WaitClosed(c) ==
    /\ running = NoTask
    /\ task[c].pc = "wait_closed"
    /\ task' = [task EXCEPT ![c].pc = "done"]
    /\ UNCHANGED <<role, data, replicas, offset, now, running, out, closed,
                   reads, obs, frames, acks, dlog>>
    /\ UNCHANGED hist
    /\ UNCHANGED hs

\* The wall clock advances.  The program reads the clock only to set an
\* expiry (line 101) and to compare against a stored one (line 114), so time
\* is counted from the moment a record with an expiry exists.
Tick ==
    /\ now < MaxTime
    /\ \E k \in DOMAIN data : data[k].expires_at # NoExpiry
    /\ now' = now + 1
    /\ UNCHANGED <<role, data, replicas, offset, running, task, out, closed,
                   reads, obs, frames, acks, dlog>>
    /\ UNCHANGED hist
    /\ UNCHANGED hs

Next ==
    \/ \E c \in Conns, ch \in ClientChunks \cup MasterChunks : Read(c, ch)
    \/ \E c \in Conns, ch \in RetryChunks : RetryRead(c, ch)
    \/ \E c \in Conns, rid \in ReplIds : Dispatch(c, rid)
    \/ \E c \in Conns : WriteReply(c)
    \/ \E c \in Conns : AfterReply(c)
    \/ \E c \in Conns, w \in Conns : PropagateWrite(c, w)
    \/ \E c \in Conns : PropagateEnd(c)
    \/ \E c \in Conns : Ack(c)
    \/ \E c \in Conns : Count(c)
    \/ \E c \in Conns : Drain(c)
    \/ \E c \in Conns : Close(c)
    \/ \E c \in Conns : WaitClosed(c)
    \/ Tick

Spec == Init /\ [][Next]_vars

\* ------------------------------------------- the replica from its start

\* line 32: await open_connection(...) returns
HsOpen ==
    /\ running = NoTask
    /\ task["m"].pc = "hs_open"
    /\ task' = [task EXCEPT !["m"].pc = "hs_send"]
    /\ running' = "m"
    /\ UNCHANGED <<role, data, replicas, offset, now, out, closed, reads, obs,
                   frames, acks, dlog, hs>>
    /\ UNCHANGED hist

\* lines 34, 39, 44, 51: writer.write(str2array(...)), up to the await
HsSend ==
    /\ running = "m"
    /\ task["m"].pc = "hs_send"
    /\ hs' = [hs EXCEPT !.sent = Append(@, hs_frame(Len(@) + 1, hs.port))]
    /\ task' = [task EXCEPT !["m"].pc = "hs_drain"]
    /\ running' = NoTask
    /\ UNCHANGED <<role, data, replicas, offset, now, out, closed, reads, obs,
                   frames, acks, dlog>>
    /\ UNCHANGED hist

\* lines 35, 40, 45, 52: await writer.drain() returns; after PSYNC line 54
\* enters handle_client(reader, writer, replica_conn=True)
HsDrain ==
    /\ running = NoTask
    /\ task["m"].pc = "hs_drain"
    /\ task' = [task EXCEPT !["m"].pc =
                   IF Len(hs.sent) = 4 THEN "read" ELSE "hs_read"]
    /\ UNCHANGED <<role, data, replicas, offset, now, running, out, closed,
                   reads, obs, frames, acks, dlog, hs>>
    /\ UNCHANGED hist

\* lines 36-37, 41-42, 46-47: data = await reader.read(100); assert
HsRecv(reply) ==
    /\ running = NoTask
    /\ task["m"].pc = "hs_read"
    /\ reply \in HsReplies
    /\ hs' = [hs EXCEPT !.got = Append(@, reply)]
    /\ LET t1 == IF hs_assert(Len(hs.sent), reply)
                 THEN [task["m"] EXCEPT !.pc = "hs_send"]
                 ELSE raise(task["m"], "AssertionError")
       IN  /\ task' = [task EXCEPT !["m"] = t1]
           /\ running' = on_cpu(t1, "m")
    /\ UNCHANGED <<role, data, replicas, offset, now, out, closed, reads, obs,
                   frames, acks, dlog>>
    /\ UNCHANGED hist

\* A replica process at its start, no client connected to it.
InitHandshake ==
    /\ role = "slave"
    /\ data = <<>>
    /\ replicas = {}
    /\ offset = 0
    /\ now = 0
    /\ running = NoTask
    /\ task = [c \in Conns |->
                  [InitTask(c, "slave") EXCEPT
                      !.pc = IF c = "m" THEN "hs_open" ELSE "none"]]
    /\ out = [c \in Conns |-> <<>>]
    /\ closed = [c \in Conns |-> FALSE]
    /\ reads = 0
    /\ obs = [c \in Conns |-> InitObs]
    /\ frames = <<>>
    /\ acks = <<>>
    /\ dlog = <<>>
    /\ last_px = NoPx
    /\ last_get = NoGet
    /\ \E port \in Ports : hs = [NoHandshake EXCEPT !.port = port]

NextHandshake ==
    \/ HsOpen
    \/ HsSend
    \/ HsDrain
    \/ \E reply \in HsReplies : HsRecv(reply)
    \/ \E ch \in MasterChunks : Read("m", ch)
    \/ \E rid \in ReplIds : Dispatch("m", rid)
    \/ Ack("m")
    \/ Count("m")
    \/ Drain("m")
    \/ Close("m")
    \/ WaitClosed("m")

SpecHandshake == InitHandshake /\ [][NextHandshake]_vars

\* ------------------------------------- the master with a replica attached

\* "c1" is the connection of a replica that runs handshake() against this
\* master; "c2" and "c3" are clients.
Peer == "c1"

Clients == {"c2", "c3"}

F_SET_UP == <<<<"S", "E", "T">>, <<"K">>, <<"V">>>>

PairChunks == {Whole(<<F_SET_V>>), Whole(<<F_SET_UP>>)}

\* lines 34, 39, 44, 49 on the replica: its next handshake frame arrives at
\* the master, once the replies so far passed the asserts
PeerSend ==
    /\ running = NoTask
    /\ task[Peer].pc = "read"
    /\ Len(hs.sent) < 4
    /\ Len(hs.got) = Len(hs.sent)
    /\ \A k \in 1..Len(hs.got) : hs_assert(k, hs.got[k])
    /\ LET k == Len(hs.sent) + 1
           bytes == hs_frame(k, hs.port)
           t1 == after_read(task[Peer], bytes)
       IN  /\ hs' = [hs EXCEPT !.sent = Append(@, bytes)]
           /\ task' = [task EXCEPT ![Peer] = t1]
           /\ running' = on_cpu(t1, Peer)
           /\ obs' = [obs EXCEPT ![Peer].orig = <<>>]
    /\ UNCHANGED <<role, data, replicas, offset, now, out, closed, reads,
                   frames, acks, dlog>>
    /\ UNCHANGED hist

\* lines 36, 41, 46 on the replica: await reader.read(100) returns what the
\* master wrote next to this connection, one write a read
PeerRecv ==
    /\ running = NoTask
    /\ Len(hs.got) < Len(hs.sent)
    /\ Len(hs.got) < 3
    /\ Len(out[Peer]) > Len(hs.got)
    /\ hs' = [hs EXCEPT !.got = Append(@, out[Peer][Len(hs.got) + 1].bytes)]
    /\ UNCHANGED <<role, data, replicas, offset, now, running, task, out,
                   closed, reads, obs, frames, acks, dlog>>
    /\ UNCHANGED hist

PairRead(c, ch) == ch \in PairChunks /\ ReadChunk(c, ch)

InitPair ==
    /\ role = "master"
    /\ data = <<>>
    /\ replicas = {}
    /\ offset = 0
    /\ now = 0
    /\ running = NoTask
    /\ task = [c \in Conns |->
                  [InitTask(c, "master")
                      EXCEPT !.pc = IF c \in Clients \cup {Peer}
                                    THEN "read" ELSE "none"]]
    /\ out = [c \in Conns |-> <<>>]
    /\ closed = [c \in Conns |-> FALSE]
    /\ reads = 0
    /\ obs = [c \in Conns |-> InitObs]
    /\ frames = <<>>
    /\ acks = <<>>
    /\ dlog = <<>>
    /\ last_px = NoPx
    /\ last_get = NoGet
    /\ hs = [NoHandshake EXCEPT !.port = <<"6", "3", "8", "0">>]

NextPair ==
    \/ PeerSend
    \/ PeerRecv
    \/ \E c \in Clients, ch \in PairChunks : PairRead(c, ch)
    \/ \E c \in Conns, rid \in ReplIds : Dispatch(c, rid)
    \/ \E c \in Conns : WriteReply(c)
    \/ \E c \in Conns : AfterReply(c)
    \/ \E c \in Conns, w \in Conns : PropagateWrite(c, w)
    \/ \E c \in Conns : PropagateEnd(c)
    \/ \E c \in Conns : Drain(c)

SpecPair == InitPair /\ [][NextPair]_vars

\* --------------------------------------- a frame that arrives in two reads

SplitFrames == {F_PING, F_ECHO, F_SET_V, F_GET}

\* The first p bytes of frame f, and the rest of it.
FrameHead(f, p) ==
    [frames |-> <<f>>, bytes |-> SubSeq(RespArray(f), 1, p), whole |-> FALSE]

FrameRest(f, p) ==
    [frames |-> <<f>>,
     bytes |-> SubSeq(RespArray(f), p + 1, Len(RespArray(f))),
     whole |-> FALSE]

\* line 75: data = await reader.read(100) returns a proper prefix of a frame
SplitHead(c, f, p) ==
    /\ running = NoTask
    /\ task[c].pc = "read"
    /\ reads = 0
    /\ f \in SplitFrames
    /\ p \in 1..(Len(RespArray(f)) - 1)
    /\ reads' = 1
    /\ LET t1 == after_read(task[c], FrameHead(f, p).bytes)
       IN  /\ task' = [task EXCEPT ![c] = t1]
           /\ running' = on_cpu(t1, c)
    /\ obs' = [obs EXCEPT ![c].whole = FALSE, ![c].orig = <<f>>]
    /\ UNCHANGED <<role, data, replicas, offset, now, out, closed, frames,
                   acks, dlog>>
    /\ UNCHANGED hist
    /\ UNCHANGED hs

\* line 85: data += await reader.read(100) returns the rest of the frame
\* while the loop retries; line 75: data = await reader.read(100) returns it
\* when the loop took the prefix for a message
SplitRest(c, f, p) ==
    /\ running = NoTask
    /\ task[c].pc \in {"read", "retry"}
    /\ reads = 1
    /\ f \in SplitFrames
    /\ p \in 1..(Len(RespArray(f)) - 1)
    /\ obs[c].orig = <<f>>
    /\ task[c].data = FrameHead(f, p).bytes
    /\ reads' = 2
    /\ LET t1 == IF task[c].pc = "retry"
                 THEN after_parse([task[c] EXCEPT
                                      !.data = @ \o FrameRest(f, p).bytes])
                 ELSE after_read(task[c], FrameRest(f, p).bytes)
       IN  /\ task' = [task EXCEPT ![c] = t1]
           /\ running' = on_cpu(t1, c)
    /\ UNCHANGED <<role, data, replicas, offset, now, out, closed, obs,
                   frames, acks, dlog>>
    /\ UNCHANGED hist
    /\ UNCHANGED hs

InitSplit ==
    /\ role = "master"
    /\ data = <<>>
    /\ replicas = {}
    /\ offset = 0
    /\ now = 0
    /\ running = NoTask
    /\ task = [c \in Conns |->
                  [InitTask(c, "master")
                      EXCEPT !.pc = IF c = "c1" THEN "read" ELSE "none"]]
    /\ out = [c \in Conns |-> <<>>]
    /\ closed = [c \in Conns |-> FALSE]
    /\ reads = 0
    /\ obs = [c \in Conns |-> InitObs]
    /\ frames = <<>>
    /\ acks = <<>>
    /\ dlog = <<>>
    /\ last_px = NoPx
    /\ last_get = NoGet
    /\ hs = NoHandshake

NextSplit ==
    \/ \E f \in SplitFrames, p \in 1..30 : SplitHead("c1", f, p)
    \/ \E f \in SplitFrames, p \in 1..30 : SplitRest("c1", f, p)
    \/ \E rid \in ReplIds : Dispatch("c1", rid)
    \/ WriteReply("c1")
    \/ AfterReply("c1")
    \/ PropagateEnd("c1")
    \/ Drain("c1")

SpecSplit == InitSplit /\ [][NextSplit]_vars

\* ------------------------------------------ how a connection's loop ends

\* Count 1 and two bulks: no bytes that follow make it a frame.
Malformed ==
    [frames |-> <<>>,
     bytes |-> <<"*", "1", CR, LF>> \o Bulk(<<"F", "O", "O">>)
                   \o Bulk(<<"B", "A", "R">>),
     whole |-> FALSE]

LoopChunks ==
    {Whole(<<F_PING>>), Whole(<<F_GET>>), Whole(<<F_SET_V>>), Malformed,
     PingHead, EndOfStream}

LoopRetryChunks == {PingTail, EndOfStream}

LoopRead(c, ch) == ch \in LoopChunks /\ ReadChunk(c, ch)

LoopRetry(c, ch) == ch \in LoopRetryChunks /\ RetryChunk(c, ch)

InitLoop ==
    /\ role = "master"
    /\ data = <<>>
    /\ replicas = {}
    /\ offset = 0
    /\ now = 0
    /\ running = NoTask
    /\ task = [c \in Conns |->
                  [InitTask(c, "master")
                      EXCEPT !.pc = IF c = "c1" THEN "read" ELSE "none"]]
    /\ out = [c \in Conns |-> <<>>]
    /\ closed = [c \in Conns |-> FALSE]
    /\ reads = 0
    /\ obs = [c \in Conns |-> InitObs]
    /\ frames = <<>>
    /\ acks = <<>>
    /\ dlog = <<>>
    /\ last_px = NoPx
    /\ last_get = NoGet
    /\ hs = NoHandshake

NextLoop ==
    \/ \E ch \in LoopChunks : LoopRead("c1", ch)
    \/ \E ch \in LoopRetryChunks : LoopRetry("c1", ch)
    \/ \E rid \in ReplIds : Dispatch("c1", rid)
    \/ WriteReply("c1")
    \/ AfterReply("c1")
    \/ PropagateEnd("c1")
    \/ Drain("c1")
    \/ Close("c1")
    \/ WaitClosed("c1")

SpecLoop == InitLoop /\ [][NextLoop]_vars

\* The event loop runs every task that is ready: a step of handle_client
\* that waits for nothing but the CPU, or for a flush or a close to complete,
\* is taken.  Nothing is assumed about when the peer sends.
SpecLoopFair ==
    /\ SpecLoop
    /\ WF_vars(\E rid \in ReplIds : Dispatch("c1", rid))
    /\ WF_vars(WriteReply("c1"))
    /\ WF_vars(AfterReply("c1"))
    /\ WF_vars(PropagateEnd("c1"))
    /\ WF_vars(Drain("c1"))
    /\ WF_vars(Close("c1"))
    /\ WF_vars(WaitClosed("c1"))

\* --------------------------------------------------------------- claims

IsPrefix(a, b) == Len(a) <= Len(b) /\ SubSeq(b, 1, Len(a)) = a

ReplyBytes(c) == [e \in 1..Len(OwnWrites(c)) |-> OwnWrites(c)[e].bytes]

IsSet(command) ==
    /\ command # <<>>
    /\ command[1] = lit_set
    /\ (Len(command) = 3 \/ (Len(command) = 5 /\ command[4] = lit_px))

IsUnknown(command) ==
    /\ command # <<>>
    /\ command[1] \notin {lit_ping, lit_echo, lit_set, lit_get, lit_del,
                          lit_info, lit_replconf, lit_psync}

\* The dispatch of the k-th logged write has not run to its end yet.
InProgress(k) ==
    \E c \in Conns :
        /\ obs[c].d = k
        /\ task[c].pc \in {"reply", "drain_reply", "propagate", "drain_prop"}

\* C1: on the connection to the master, once the loop has processed every
\* frame the master sent (each delivered whole), the replication offset
\* equals the sum of the byte lengths of these frames.
C1_OffsetIsBytesReceived ==
    (task["m"].pc = "read" /\ obs["m"].whole) => offset = Sum(frames)

\* C2: the REPLCONF ACK sent for a REPLCONF GETACK frame carries the total
\* bytes of the frames that preceded this frame, and the offset is not yet
\* increased while the reply is being flushed.
C2_AckCarriesBytesBefore ==
    /\ \A a \in 1..Len(acks) :
           acks[a].sent
               = RespArray(<<lit_REPLCONF, lit_ACK, str(acks[a].before)>>)
    /\ (task["m"].pc = "drain_ack" /\ IsGetAck(obs["m"].command))
           => offset = acks[Len(acks)].offset

\* C3: on the connection to the master, a command that is not REPLCONF
\* GETACK writes nothing to the connection.
C3_OnlyGetAckAnswered ==
    \A c \in Conns :
        (replica_conn(c) /\ obs[c].seen > 0 /\ ~IsGetAck(obs[c].command))
            => Len(OwnWrites(c)) = obs[c].nown

\* C4: once the dispatch of a set or del command on a client connection has
\* run to its end, the RESP array of the command has been written to the
\* writer of every replica that was registered when it was dispatched (and
\* has not closed since).
C4_EveryWriteReachesEveryReplica ==
    \A k \in 1..Len(dlog) :
        InProgress(k)
        \/ \A r \in dlog[k].replicas :
               closed[r]
               \/ \E e \in 1..Len(out[r]) :
                      /\ out[r][e].kind = "prop"
                      /\ out[r][e].d = k
                      /\ out[r][e].bytes = RespArray(dlog[k].command)

\* C5: every replica's writer receives the propagated writes in the order
\* in which the server dispatched them.
C5_PropagationKeepsDispatchOrder ==
    \A r \in Conns :
        \A p, q \in 1..Len(out[r]) :
            (p < q /\ out[r][p].kind = "prop" /\ out[r][q].kind = "prop")
                => out[r][p].d < out[r][q].d

C7_SetOnExistingKeyIsSilent ==
    \A c \in Conns :
        (/\ ~replica_conn(c)
         /\ obs[c].seen > 0
         /\ IsSet(obs[c].command)
         /\ obs[c].present)
            => Len(OwnWrites(c)) = obs[c].nown /\ task[c].pc # "raised"

\* C8: a command of an unknown verb writes nothing to the client, changes
\* neither the keyspace nor the replica set, and the connection goes on.
C8_UnknownCommandIgnored ==
    \A c \in Conns :
        (~replica_conn(c) /\ obs[c].seen > 0 /\ IsUnknown(obs[c].command))
            => /\ Len(OwnWrites(c)) = obs[c].nown
               /\ ~obs[c].changed
               /\ task[c].pc # "raised"

\* C9: GET of an absent key replies the null bulk, leaves the keyspace as it
\* is, and the connection goes on.
C9_GetAbsentRepliesNull ==
    \A c \in Conns :
        (/\ ~replica_conn(c)
         /\ obs[c].seen > 0
         /\ Len(obs[c].command) = 2
         /\ obs[c].command[1] = lit_get
         /\ ~obs[c].present)
            => /\ task[c].pc # "raised"
               /\ ~obs[c].changed
               /\ Len(OwnWrites(c)) > obs[c].nown
                      => ReplyBytes(c)[obs[c].nown + 1]
                             = <<"$", "-", "1", CR, LF>>

\* C10: once DEL key is dispatched, on a client connection or on the
\* connection to the master, the keyspace holds no entry for the key.
C10_DelRemovesKey ==
    \A c \in Conns :
        (/\ obs[c].seen > 0
         /\ Len(obs[c].command) = 2
         /\ obs[c].command[1] = lit_del)
            => ~obs[c].present_after

\* C11: a GET k that returns a value, at a time not later than t0 + m
\* where SET k v PX m was the latest such call (at t0) and no DEL k came
\* since, returns v.
C11_GetReturnsLatestPxValue ==
    (/\ last_px.on
     /\ last_get.on
     /\ last_get.key = last_px.key
     /\ last_get.t <= last_px.t0 + last_px.ttl
     /\ last_get.bytes # str2bulk(<<None>>))
        => last_get.bytes = str2bulk(<<last_px.value>>)

\* A record is expired at the instant t iff it has an expiry and the
\* expiry is strictly before t.
Expired(rec, t) == rec.expires_at # NoExpiry /\ rec.expires_at < t

\* C15: a GET of a present key whose expiry is strictly in the past removes
\* the entry and replies the null bulk; a GET of a present key that is not
\* expired leaves the entry as it is and replies its value; so no entry
\* whose expiry is earlier than the instant of the GET is left for the key.
C15_GetExpiresLazily ==
    last_get.on =>
        /\ IF Expired(last_get.before, last_get.t)
           THEN /\ ~last_get.kept
                /\ last_get.bytes = <<"$", "-", "1", CR, LF>>
           ELSE /\ last_get.kept
                /\ last_get.after = last_get.before
                /\ last_get.bytes = str2bulk(<<last_get.before.value>>)
        /\ last_get.kept => ~Expired(last_get.after, last_get.t)

\* C15 happens: a GET found its key expired, and another found a key with
\* an expiry that is not yet in the past.
C15_Witness ==
    /\ last_get.on
    /\ Expired(last_get.before, last_get.t)
    /\ ~last_get.kept
    /\ last_get.key \notin DOMAIN data

C15_WitnessFresh ==
    /\ last_get.on
    /\ last_get.before.expires_at # NoExpiry
    /\ ~Expired(last_get.before, last_get.t)
    /\ last_get.kept

\* The handshake as the master sees it: the four frames of a replica
\* listening on port, and the replies they wait for.
HsWire(port) ==
    <<RespArray(<<lit_PING>>),
      RespArray(<<lit_REPLCONF, lit_listening_port, port>>),
      RespArray(<<lit_REPLCONF, lit_capa, lit_npsync2>>),
      RespArray(<<lit_PSYNC, <<"?">>, <<"-", "1">>>>)>>

HsReply ==
    <<<<"+", "P", "O", "N", "G", CR, LF>>, <<"+", "O", "K", CR, LF>>,
      <<"+", "O", "K", CR, LF>>>>

\* The connection to the master is in the hands of handle_client.
ReplicaInbound ==
    /\ task["m"].pc \notin {"none", "hs_open", "hs_send", "hs_drain", "hs_read"}
    /\ task["m"].exc # "AssertionError"

\* C12: the handshake writes PING, REPLCONF listening-port <port>, REPLCONF
\* capa npsync2, PSYNC ? -1 in this order, each frame after the first only
\* when the reply to the one before was read and is the expected one; after
\* a reply that differs it writes nothing more and the connection never
\* becomes replica-inbound.
C12_HandshakeInOrder ==
    /\ IsPrefix(hs.sent, HsWire(hs.port))
    /\ Len(hs.sent) <= Len(hs.got) + 1
    /\ \A k \in 1..Len(hs.got) : k < Len(hs.sent) => hs.got[k] = HsReply[k]
    /\ (\E k \in 1..Len(hs.got) : hs.got[k] # HsReply[k])
           => /\ Len(hs.sent) = Len(hs.got)
              /\ task["m"].pc = "raised"
              /\ ~ReplicaInbound
    /\ ReplicaInbound => hs.sent = HsWire(hs.port) /\ hs.got = HsReply

\* C12 happens: a handshake ran to its end and the loop took over; and a
\* handshake stopped at its second reply.
C12_Witness ==
    /\ hs.port = <<"6", "3", "8", "1">>
    /\ hs.sent = HsWire(hs.port)
    /\ hs.got = HsReply
    /\ task["m"].pc = "read"
    /\ ReplicaInbound

C12_WitnessMismatch ==
    /\ Len(hs.got) = 2
    /\ hs.got[1] = HsReply[1]
    /\ hs.got[2] # HsReply[2]
    /\ Len(hs.sent) = 2
    /\ task["m"].pc = "raised"

\* --- C13: a SET a client sends the master ends up in the replica

\* The replica at the other end of the Peer connection, once its handshake
\* is through (line 54): handle_client(reader, writer, replica_conn=True)
\* over what the master wrote after the three replies.
InitReplica ==
    [data |-> <<>>, offset |-> 0, buf |-> <<>>, retry |-> FALSE,
     response |-> <<>>, bound |-> FALSE, dead |-> FALSE]

\* lines 88-155 on the replica: the commands of one parse, in order
RECURSIVE replica_commands(_, _, _)
replica_commands(cs, i, s) ==
    IF i > Len(cs) \/ s.dead THEN s
    ELSE LET command == cs[i].command
             st0 == [data |-> s.data, replicas |-> {},
                     response |-> s.response, bound |-> s.bound,
                     exc |-> NoExc]
             st1 == match_command(command, st0, "m", "slave", s.offset, now,
                                  CHOOSE rid \in ReplIds : TRUE)
             hit == lit_getack \in Range(command)
         IN  IF st1.exc # NoExc \/ (hit /\ ~st1.bound)
             THEN [s EXCEPT !.dead = TRUE]
             ELSE replica_commands(cs, i + 1,
                      [s EXCEPT !.data = st1.data,
                                !.response = st1.response,
                                !.bound = st1.bound,
                                !.offset = @ + cs[i].message_length])

\* lines 75-86 on the replica: one write of the master a read
RECURSIVE replica_run(_, _, _)
replica_run(ws, k, s) ==
    IF k > Len(ws) \/ s.dead THEN s
    ELSE LET buf == IF s.retry THEN s.buf \o ws[k].bytes ELSE ws[k].bytes
             r == parse_command(buf)
         IN  IF r.exc # NoExc
             THEN replica_run(ws, k + 1, [s EXCEPT !.buf = buf, !.retry = TRUE])
             ELSE replica_run(ws, k + 1,
                      replica_commands(r.commands, 1,
                          [s EXCEPT !.buf = buf, !.retry = FALSE]))

\* The replica after everything the master wrote to it so far.
Replica == replica_run(SubSeq(out[Peer], 4, Len(out[Peer])), 1, InitReplica)

PeerAttached == Len(hs.sent) = 4

\* The frames propagated to the replica so far.
Propagated == SelectSeq(out[Peer], LAMBDA e : e.kind = "prop")

\* C13: once the replica has completed the handshake, every SET x v the
\* master has finished handling for a client was written to the replica as
\* a RESP array carrying that command, the replica holds the key, and the
\* replica's offset is the byte length of the propagated frames.
C13_SetReachesAttachedReplica ==
    PeerAttached =>
        /\ \A d \in 1..Len(dlog) :
               (/\ dlog[d].hs = 4
                /\ IsSet(dlog[d].command)
                /\ Len(dlog[d].command) = 3
                /\ ~InProgress(d))
                   => /\ \E n \in 1..Len(Propagated) :
                             /\ Propagated[n].d = d
                             /\ parse_command(Propagated[n].bytes).commands
                                    = <<[command |-> dlog[d].command,
                                         message_length |->
                                             Len(Propagated[n].bytes)]>>
                      /\ dlog[d].command[2] \in DOMAIN Replica.data
        /\ Replica.offset
               = Sum([n \in 1..Len(Propagated) |-> Len(Propagated[n].bytes)])

\* --- C14: the propagated command keeps the case of its key and value

\* C14: every frame the master propagates to a replica for a client's
\* SET k V is a RESP array whose key and value tokens are byte for byte the
\* tokens the client sent (the verb in the client's or in lower case).
C14_PropagationKeepsCase ==
    \A n \in 1..Len(Propagated) :
        LET o == dlog[Propagated[n].d].orig
        IN  Len(o) = 3 =>
                \E verb \in {o[1], lower(o[1])} :
                    Propagated[n].bytes = RespArray(<<verb, o[2], o[3]>>)

\* --- C16: a frame split across two reads

\* C16: for a frame cut at any byte position, the decoder fails on the
\* prefix (the loop waits for more bytes), and once the rest has arrived
\* the commands decoded are those of the unsplit frame, tokens and consumed
\* byte count, and one command is dispatched.
C16_SplitFrameDispatchedAsWhole ==
    obs["c1"].orig # <<>> =>
        /\ reads = 1 => task["c1"].pc = "retry"
        /\ reads = 2 =>
               task["c1"].commands
                   = parse_command(RespArray(obs["c1"].orig[1])).commands
        /\ obs["c1"].seen <= 1

\* --- C17, C18: how the loop of a connection ends

\* C17: a connection whose buffer starts with a malformed frame is being
\* closed; its loop is not waiting for more bytes.
C17_MalformedFrameClosesSocket ==
    \A c \in Conns :
        IsPrefix(Malformed.bytes, task[c].data)
            => task[c].pc \in {"close", "wait_closed", "done"}

\* C18: once a read has returned zero bytes, or the loop has stopped on an
\* exception, the writer is eventually closed.
C18_LoopEndClosesWriter ==
    \A c \in Conns :
        (obs[c].eof \/ task[c].pc = "raised") ~> closed[c]

\* --- C19: a replica whose writer fails

\* C19: a failed flush to one replica never ends the loop of the client
\* connection that issued the write, and once the dispatch of the write has
\* run to its end the command has been written to every other replica that
\* was registered for it and is still open.
C19_ReplicaFailureIsContained ==
    /\ \A c \in Conns :
           task[c].pc = "raised" => task[c].exc # "ConnectionResetError"
    /\ \A k \in 1..Len(dlog) :
           (~InProgress(k) /\ \E r \in dlog[k].replicas : closed[r])
               => \A r \in dlog[k].replicas :
                      closed[r]
                      \/ \E e \in 1..Len(out[r]) :
                             out[r][e].kind = "prop" /\ out[r][e].d = k

\* --- C20: writes that arrive on the connection to the master

\* The write just dispatched on connection c has taken effect in the
\* keyspace: the key of a set holds the value sent, the key of a del is gone.
Applied(c) ==
    LET command == obs[c].command
    IN  IF IsSet(command)
        THEN /\ command[2] \in DOMAIN data
             /\ data[command[2]].value = command[3]
        ELSE IsDel(command) => command[2] \notin DOMAIN data

\* No frame written to a replica of this server stems from the connection
\* to the master: each was logged by a dispatch on a client connection.
OnlyClientWritesPropagated ==
    \A r \in Conns :
        \A e \in 1..Len(out[r]) :
            out[r][e].kind = "prop"
                => /\ out[r][e].d \in 1..Len(dlog)
                   /\ ~replica_conn(dlog[out[r][e].d].conn)

\* C20: a write command received on the connection to the master is
\* applied to the keyspace of this server, and it is never propagated to
\* the replicas attached to this server.
C20_InboundWriteAppliedNotPropagated ==
    /\ (/\ task["m"].pc \in {"ack", "count"}
        /\ IsWrite(obs["m"].command))
           => Applied("m")
    /\ OnlyClientWritesPropagated

====
